---- MODULE Spec2Model ----
(***************************************************************************)
(* The execution-staging engine of koopmans_workgraph_mwe: the uid ledger  *)
(* and task lifecycle of EngineABC (engines/engine.py), the local backend  *)
(* of LocalhostEngine (engines/localhost.py) and the path-based helpers of *)
(* os/local.py, over a model of a POSIX file tree with symbolic links.     *)
(*                                                                         *)
(* A Python str is a sequence of tokens (short strings that are never      *)
(* split); a path is a sequence of components, an absolute one starting    *)
(* with the component "/"; the file tree is a function from the absolute,  *)
(* symlink-free paths of the existing entries to their nodes.              *)
(***************************************************************************)
EXTENDS Integers, Sequences, FiniteSets, TLC

(* ------------------------------ bounds -------------------------------- *)
\* Invocations of run_task per behaviour of Spec.
MaxTasks == 2
\* Backend calls per behaviour of BackendSpec.
MaxOps == 2
\* Symbolic links followed while resolving one path (the kernel's ELOOP limit).
MaxHops == 4

(* --------------------------- strings and paths ------------------------ *)
DigitChars == <<"0", "1", "2", "3", "4", "5", "6", "7", "8", "9">>

RECURSIVE Digits(_)
Digits(n) == IF n < 10 THEN <<DigitChars[n + 1]>>
             ELSE Digits(n \div 10) \o <<DigitChars[(n % 10) + 1]>>

\* f"{n:02d}"
Fmt02d(n) == IF n < 10 THEN <<"0">> \o Digits(n) ELSE Digits(n)

RECURSIVE Parts(_, _)
Parts(s, acc) ==
    IF s = <<>> THEN (IF acc \in {"", "."} THEN <<>> ELSE <<acc>>)
    ELSE IF Head(s) = "/"
         THEN (IF acc \in {"", "."} THEN <<>> ELSE <<acc>>) \o Parts(Tail(s), "")
         ELSE Parts(Tail(s), acc \o Head(s))

\* pathlib.Path(s): split at "/", drop empty and "." components, keep "..".
PathOf(s) == (IF s # <<>> /\ Head(s) = "/" THEN <<"/">> ELSE <<>>) \o Parts(s, "")

\* The process's working directory; relative paths start here.
CWD == <<"/", "w">>

IsAbs(p) == p # <<>> /\ Head(p) = "/"
Abs(p) == IF IsAbs(p) THEN p ELSE CWD \o p
\* Path.parent and Path.name (lexical)
Parent(p) == IF p = <<>> \/ p = <<"/">> THEN p ELSE SubSeq(p, 1, Len(p) - 1)
Name(p) == IF p = <<>> THEN "" ELSE p[Len(p)]
\* a / b
PJoin(a, b) == IF IsAbs(b) THEN b ELSE a \o b
IsPrefix(a, b) == Len(a) <= Len(b) /\ SubSeq(b, 1, Len(a)) = a

(* ------------------------------ file tree ----------------------------- *)
DirNode == [kind |-> "dir", content |-> "", target |-> <<>>]
FileNode(c) == [kind |-> "file", content |-> c, target |-> <<>>]
LinkNode(t) == [kind |-> "link", content |-> "", target |-> t]

Put(fs, p, node) == [q \in DOMAIN fs \cup {p} |-> IF q = p THEN node ELSE fs[q]]
Drop(fs, S) == [q \in DOMAIN fs \ S |-> fs[q]]
Under(fs, p) == {q \in DOMAIN fs : IsPrefix(p, q)}

RECURSIVE LexJoin(_, _)
LexJoin(base, rest) ==
    IF rest = <<>> THEN base
    ELSE IF Head(rest) = ".." THEN LexJoin(Parent(base), Tail(rest))
    ELSE IF Head(rest) = "/" THEN LexJoin(<<"/">>, Tail(rest))
    ELSE LexJoin(base \o <<Head(rest)>>, Tail(rest))

\* The kernel's path walk from the existing real directory cur along rest.
\* ok: the walk ended on an existing entry, at path; otherwise err says why
\* and last says that only the final component was missing.
RECURSIVE Walk(_, _, _, _, _)
Walk(fs, cur, rest, follow, fuel) ==
    IF rest = <<>> THEN [ok |-> TRUE, path |-> cur, err |-> "", last |-> FALSE]
    ELSE LET c == Head(rest)
             more == Tail(rest)
             p == cur \o <<c>>
         IN IF c = ".." THEN Walk(fs, Parent(cur), more, follow, fuel)
            ELSE IF c = "/" THEN Walk(fs, <<"/">>, more, follow, fuel)
            ELSE IF p \notin DOMAIN fs
                 THEN [ok |-> FALSE, path |-> LexJoin(p, more), err |-> "ENOENT",
                       last |-> more = <<>>]
            ELSE IF fs[p].kind = "link"
                 THEN IF more = <<>> /\ ~follow
                      THEN [ok |-> TRUE, path |-> p, err |-> "", last |-> FALSE]
                      ELSE IF fuel = 0
                           THEN [ok |-> FALSE, path |-> p, err |-> "ELOOP", last |-> FALSE]
                           ELSE Walk(fs, cur, fs[p].target \o more, follow, fuel - 1)
            ELSE IF fs[p].kind = "dir" THEN Walk(fs, p, more, follow, fuel)
            ELSE IF more = <<>>
                 THEN [ok |-> TRUE, path |-> p, err |-> "", last |-> FALSE]
                 ELSE [ok |-> FALSE, path |-> p, err |-> "ENOTDIR", last |-> FALSE]

\* stat(p) and lstat(p)
Stat(fs, p) == Walk(fs, <<"/">>, Tail(Abs(p)), TRUE, MaxHops)
LStat(fs, p) == Walk(fs, <<"/">>, Tail(Abs(p)), FALSE, MaxHops)

\* Path.exists, Path.is_symlink, Path.is_dir, Path.is_file
Exists(fs, p) == Stat(fs, p).ok
IsSymlink(fs, p) == LET r == LStat(fs, p) IN r.ok /\ fs[r.path].kind = "link"
IsDir(fs, p) == LET r == Stat(fs, p) IN r.ok /\ fs[r.path].kind = "dir"
IsFile(fs, p) == LET r == Stat(fs, p) IN r.ok /\ fs[r.path].kind = "file"
\* Path.resolve() (non-strict)
Resolve(fs, p) == Stat(fs, p).path

\* Path.relative_to(other, walk_up=True) on absolute paths
RECURSIVE CommonLen(_, _)
CommonLen(a, b) == IF a = <<>> \/ b = <<>> \/ Head(a) # Head(b) THEN 0
                   ELSE 1 + CommonLen(Tail(a), Tail(b))
\* Faulty variant: the path is not made relative at all.
RelativeTo_absolute(self, other) == self

RelativeTo(self, other) ==
    LET k == CommonLen(self, other)
    IN [i \in 1..(Len(other) - k) |-> ".."] \o SubSeq(self, k + 1, Len(self))

Ok(fs) == [fs |-> fs, err |-> ""]
Fail(fs, e) == [fs |-> fs, err |-> e]

(* --------------------- os, pathlib and shutil calls ------------------- *)
\* os.unlink(p)
Unlink(fs, p) ==
    LET l == LStat(fs, p)
    IN IF ~l.ok THEN Fail(fs, l.err)
       ELSE IF fs[l.path].kind = "dir" THEN Fail(fs, "EISDIR")
       ELSE Ok(Drop(fs, {l.path}))

\* shutil.rmtree(p): refuses a symbolic link, never follows one below p.
Rmtree(fs, p) ==
    LET l == LStat(fs, p)
    IN IF ~l.ok THEN Fail(fs, l.err)
       ELSE IF fs[l.path].kind = "link" THEN Fail(fs, "OSError")
       ELSE IF fs[l.path].kind = "file" THEN Fail(fs, "ENOTDIR")
       ELSE Ok(Drop(fs, Under(fs, l.path)))

\* os.mkdir(p)
OsMkdir(fs, p) ==
    LET l == LStat(fs, p)
    IN IF l.ok THEN Fail(fs, "EEXIST")
       ELSE IF l.err = "ENOENT" /\ l.last THEN Ok(Put(fs, l.path, DirNode))
       ELSE Fail(fs, l.err)

\* Path.mkdir(parents, exist_ok)
RECURSIVE PathMkdir(_, _, _, _)
PathMkdir(fs, p, parents, exist_ok) ==
    LET r == OsMkdir(fs, p)
    IN IF r.err = "" THEN r
       ELSE IF r.err = "ENOENT"
            THEN IF ~parents \/ Parent(p) = p THEN r
                 ELSE LET up == PathMkdir(fs, Parent(p), TRUE, TRUE)
                      IN IF up.err # "" THEN up
                         ELSE PathMkdir(up.fs, p, FALSE, exist_ok)
       ELSE IF exist_ok /\ IsDir(fs, p) THEN Ok(fs) ELSE r

\* Path.symlink_to(target)
SymlinkTo(fs, dest, target) ==
    LET l == LStat(fs, dest)
    IN IF l.ok THEN Fail(fs, "EEXIST")
       ELSE IF l.err = "ENOENT" /\ l.last THEN Ok(Put(fs, l.path, LinkNode(target)))
       ELSE Fail(fs, l.err)

\* open(p, 'w').write(content): follows links, creates or truncates.
OpenWrite(fs, p, content) ==
    LET s == Stat(fs, p)
    IN IF s.ok
       THEN IF fs[s.path].kind = "dir" THEN Fail(fs, "EISDIR")
            ELSE Ok(Put(fs, s.path, FileNode(content)))
       ELSE IF s.err = "ENOENT" /\ s.last THEN Ok(Put(fs, s.path, FileNode(content)))
       ELSE Fail(fs, s.err)

\* shutil.copy(src, dst): into dst when dst is a directory, else onto dst.
ShutilCopy(fs, src, dst) ==
    LET to == IF IsDir(fs, dst) THEN dst \o <<Name(src)>> ELSE dst
        s == Stat(fs, src)
    IN IF s.ok /\ Stat(fs, to).ok /\ Stat(fs, to).path = s.path THEN Fail(fs, "SameFileError")
       ELSE IF ~s.ok THEN Fail(fs, s.err)
       ELSE IF fs[s.path].kind = "dir" THEN Fail(fs, "EISDIR")
       ELSE OpenWrite(fs, to, fs[s.path].content)

\* The names of the entries of the real directory d.
Listdir(fs, d) == {q[Len(q)] : q \in {q \in DOMAIN fs : Len(q) = Len(d) + 1 /\ IsPrefix(d, q)}}

\* shutil.copytree(src, dst): dst must not exist; links are followed and
\* their targets copied; the errors of single entries are raised at the end.
RECURSIVE CopyTree(_, _, _, _)
RECURSIVE CopyEntries(_, _, _, _, _, _)
CopyEntries(fs, src, dst, todo, failed, fuel) ==
    IF todo = {} THEN (IF failed THEN Fail(fs, "shutil.Error") ELSE Ok(fs))
    ELSE LET n == CHOOSE n \in todo : TRUE
             r == IF IsDir(fs, src \o <<n>>)
                  THEN CopyTree(fs, src \o <<n>>, dst \o <<n>>, fuel - 1)
                  ELSE ShutilCopy(fs, src \o <<n>>, dst \o <<n>>)
         IN CopyEntries(r.fs, src, dst, todo \ {n}, failed \/ r.err # "", fuel)
CopyTree(fs, src, dst, fuel) ==
    LET s == Stat(fs, src)
    IN IF ~s.ok THEN Fail(fs, s.err)
       ELSE IF fs[s.path].kind # "dir" THEN Fail(fs, "ENOTDIR")
       ELSE IF fuel = 0 THEN Fail(fs, "ELOOP")
       ELSE IF LStat(fs, dst).ok THEN Fail(fs, "EEXIST")
       ELSE LET made == PathMkdir(fs, dst, TRUE, FALSE)
            IN IF made.err # "" THEN made
               ELSE CopyEntries(made.fs, src, dst, Listdir(fs, s.path), FALSE, fuel)

(* ---------------------------- file references ------------------------- *)
\* single_file(uid=...) and directory(uid=...): the dictionaries the engine
\* and the local backend exchange; the backend reads path["uid"], the engine
\* reads src["kind"].
single_file(uid) == [kind |-> "single_file", uid |-> uid]
directory(uid) == [kind |-> "directory", uid |-> uid]

(* --------------------- engines/localhost.py backend ------------------- *)
file_exists(fs, path) == Exists(fs, PathOf(path.uid)) \/ IsSymlink(fs, PathOf(path.uid))

write_to_file(fs, content, path) == OpenWrite(fs, PathOf(path.uid), content)

delete_file(fs, path) ==
    IF IsDir(fs, PathOf(path.uid)) THEN Rmtree(fs, PathOf(path.uid))
    ELSE Unlink(fs, PathOf(path.uid))

copy_file(fs, src, dest) ==
    IF IsDir(fs, PathOf(src.uid))
    THEN CopyTree(fs, PathOf(src.uid), PathOf(dest.uid), MaxHops)
    ELSE ShutilCopy(fs, PathOf(src.uid), PathOf(dest.uid))

is_dir(fs, path) == IsDir(fs, PathOf(path.uid))

mkdir(fs, path, parents, exist_ok) == PathMkdir(fs, PathOf(path.uid), parents, exist_ok)

\* Faulty variant: the link holds the source path as given, which is relative
\* to the working directory of the process, not to the directory of the link.
link_file_unresolved(fs, src, dest, recursive) ==
    SymlinkTo(fs, PathOf(dest.uid), PathOf(src.uid))

\* Both branches of the is_dir test create the same link; recursive is unused.
link_file(fs, src, dest, recursive) ==
    LET src_path == PathOf(src.uid)
        dest_path == PathOf(dest.uid)
        relative_path == RelativeTo(Resolve(fs, src_path), Resolve(fs, Parent(dest_path)))
    IN SymlinkTo(fs, dest_path, relative_path)

(* ------------------- EngineABC.copy_file / link_file ------------------ *)
\* The backend calls one engine call makes, in order, with the tree after them.
Called(r, op, args) == [fs |-> r.fs, err |-> r.err, calls |-> <<[op |-> op, args |-> args]>>]
Then(a, b) == [fs |-> b.fs, err |-> b.err, calls |-> a.calls \o b.calls]
NoCall(fs) == [fs |-> fs, err |-> "", calls |-> <<>>]

Engine_delete_if(fs, dest, overwrite) ==
    IF overwrite /\ file_exists(fs, dest)
    THEN Called(delete_file(fs, dest), "delete_file", <<dest>>)
    ELSE NoCall(fs)

Engine_copy_file(fs, src, dest, overwrite) ==
    LET d == Engine_delete_if(fs, dest, overwrite)
    IN IF d.err # "" THEN d
       ELSE Then(d, Called(copy_file(d.fs, src, dest), "_copy_file", <<src, dest>>))

Engine_link_file(fs, src, dest, recursive, overwrite) ==
    LET d == Engine_delete_if(fs, dest, overwrite)
    IN IF d.err # "" THEN d
       ELSE Then(d, Called(link_file(d.fs, src, dest, recursive), "_link_file",
                           <<src, dest, recursive>>))

(* ------------------------------ os/local.py --------------------------- *)
\* The entries below the directory src, as paths relative to it (rglob('*')
\* does not descend into linked directories).
Rglob(fs, src) ==
    LET s == Stat(fs, src)
    IN IF ~s.ok \/ fs[s.path].kind # "dir" THEN {}
       ELSE {SubSeq(q, Len(s.path) + 1, Len(q)) : q \in Under(fs, s.path) \ {s.path}}

RECURSIVE LinkChildren(_, _, _, _)
LinkChildren(fs, src, dest, todo) ==
    IF todo = {} THEN Ok(fs)
    ELSE LET rel == CHOOSE r \in todo : TRUE
             child == src \o rel
             child_dest == dest \o rel
             made == IF Exists(fs, Parent(child_dest)) THEN Ok(fs)
                     ELSE PathMkdir(fs, Parent(child_dest), TRUE, TRUE)
             linked == IF made.err # "" THEN made
                       ELSE SymlinkTo(made.fs, child_dest,
                                RelativeTo(Resolve(made.fs, child),
                                           Resolve(made.fs, Parent(child_dest))))
         IN IF IsDir(fs, child) THEN LinkChildren(fs, src, dest, todo \ {rel})
            ELSE IF linked.err # "" THEN linked
            ELSE LinkChildren(linked.fs, src, dest, todo \ {rel})

\* Faulty variant: a recursive link of a directory is one link to the directory.
link_path_whole_directory(fs, src, dest, recursive) ==
    SymlinkTo(fs, dest, RelativeTo(Resolve(fs, src), Resolve(fs, Parent(dest))))

link_path(fs, src, dest, recursive) ==
    IF recursive THEN LinkChildren(fs, src, dest, Rglob(fs, src))
    ELSE SymlinkTo(fs, dest, RelativeTo(Resolve(fs, src), Resolve(fs, Parent(dest))))

(* ------------------------ EngineABC: the uid ledger ------------------- *)
VARIABLES uids,     \* EngineABC.uids, the ledger
          fs,       \* the file tree
          pc,       \* where run_task stands
          cur,      \* the arguments and locals of the invocation in progress
          trace,    \* the steps and backend calls of that invocation, in order
          hist,     \* the task name of every invocation so far, in call order
          failed,   \* some invocation so far has raised
          result,   \* how the last finished invocation ended
          pipe      \* the output mappings returned to the pipeline so far, in call order

vars == <<uids, fs, pc, cur, trace, hist, failed, result, pipe>>

\* Faulty variant: the ordinal formatted without the zero padding.
uid_for_unpadded(ledger, name) == Digits(Len(ledger) + 1) \o <<"-">> \o name

\* f"{len(self.uids) + 1:02d}-{name}"
uid_for(ledger, name) == Fmt02d(Len(ledger) + 1) \o <<"-">> \o name

\* Faulty variant: the uid is computed but never appended to the ledger.
assign_uid_no_append(ledger, name) == [uid |-> uid_for(ledger, name), uids |-> ledger]

assign_uid(ledger, name) == [uid |-> uid_for(ledger, name),
                             uids |-> Append(ledger, uid_for(ledger, name))]

(* --------------------------- EngineABC._pre_run ----------------------- *)
Step(op, args) == <<[op |-> op, args |-> args]>>
Sub(uid, name) == uid \o <<"/">> \o name

\* Faulty variant: the raw inputs are dumped before they are validated.
pre_run_validate_dump_first(tree, uid, input_model) ==
    IF input_model = "none" THEN NoCall(tree)
    ELSE LET w == Called(write_to_file(tree, "inputs", single_file(Sub(uid, <<"inputs.json">>))),
                         "write_to_file", <<single_file(Sub(uid, <<"inputs.json">>))>>)
         IN IF w.err # "" THEN w
            ELSE Then(w, [fs |-> w.fs,
                          err |-> IF input_model = "invalid" THEN "ValidationError" ELSE "",
                          calls |-> Step("model_validate", <<>>)])

\* Lines 34-37: validate the inputs and dump them to <uid>/inputs.json.
pre_run_validate(tree, uid, input_model) ==
    IF input_model = "none" THEN NoCall(tree)
    ELSE IF input_model = "invalid"
         THEN [fs |-> tree, err |-> "ValidationError", calls |-> Step("model_validate", <<>>)]
         ELSE Then([fs |-> tree, err |-> "", calls |-> Step("model_validate", <<>>)],
                   Called(write_to_file(tree, "inputs", single_file(Sub(uid, <<"inputs.json">>))),
                          "write_to_file", <<single_file(Sub(uid, <<"inputs.json">>))>>))

\* Lines 41-44: delete whatever is at <uid>, then create the directory.
pre_run_reset(tree, uid) ==
    LET working_dir == directory(uid)
        d == IF file_exists(tree, working_dir)
             THEN Called(delete_file(tree, working_dir), "delete_file", <<working_dir>>)
             ELSE NoCall(tree)
    IN IF d.err # "" THEN d
       ELSE Then(d, Called(mkdir(d.fs, working_dir, TRUE, TRUE), "mkdir", <<working_dir>>))

\* Lines 48-49: is this keyword argument a link directive?
IsLink(inp) == inp.kind = "link"

\* Faulty variant: every link directive is staged by link_file, the symlink flag unread.
pre_run_stage_always_link(tree, uid, inp) ==
    IF ~IsLink(inp) THEN NoCall(tree)
    ELSE LET dest == IF inp.src.kind = "single_file"
                     THEN single_file(Sub(uid, inp.dest))
                     ELSE directory(Sub(uid, inp.dest))
         IN Then([fs |-> tree, err |-> "",
                  calls |-> Step("link_file", <<inp.src, dest, FALSE, inp.overwrite>>)],
                 Engine_link_file(tree, inp.src, dest, FALSE, inp.overwrite))

\* Lines 47-57: one turn of the staging loop.
pre_run_stage(tree, uid, inp) ==
    IF ~IsLink(inp) THEN NoCall(tree)
    ELSE LET dest == IF inp.src.kind = "single_file"
                     THEN single_file(Sub(uid, inp.dest))
                     ELSE directory(Sub(uid, inp.dest))
         IN IF inp.symlink
            THEN Then([fs |-> tree, err |-> "",
                       calls |-> Step("link_file", <<inp.src, dest, FALSE, inp.overwrite>>)],
                      Engine_link_file(tree, inp.src, dest, FALSE, inp.overwrite))
            ELSE Then([fs |-> tree, err |-> "",
                       calls |-> Step("copy_file", <<inp.src, dest, inp.overwrite>>)],
                      Engine_copy_file(tree, inp.src, dest, inp.overwrite))

(* ------------------------------- inputs ------------------------------- *)
\* Task names (func.__name__ or the call_link_label of the metadata).
Names == {<<"f">>, <<"g">>}
\* No input schema, or one that the keyword arguments satisfy or violate.
Models == {"none", "valid", "invalid"}

Str(a, b) == <<a, "/", b>>
Value == [kind |-> "value"]
LinkDict(src, dest, symlink, recursive, overwrite) ==
    [kind |-> "link", src |-> src, dest |-> dest, symlink |-> symlink,
     recursive |-> recursive, overwrite |-> overwrite]

\* The keyword arguments of one invocation, in the order of the dictionary.
KwargChoices ==
    { <<Value, LinkDict(directory(<<"data">>), <<"tmp">>, TRUE, TRUE, TRUE)>>,
      <<single_file(Str("data", "b.txt")),
        LinkDict(single_file(Str("data", "b.txt")), <<"b.txt">>, FALSE, FALSE, FALSE)>>,
      <<LinkDict(directory(<<"data">>), <<"tmp">>, FALSE, FALSE, FALSE),
        LinkDict(single_file(Str("data", "b.txt")), <<"tmp">>, TRUE, FALSE, TRUE)>>,
      <<LinkDict(single_file(<<"missing">>), <<"m">>, FALSE, FALSE, FALSE)>> }


BaseTree ==
    (<<"/">> :> DirNode) @@ (<<"/", "w">> :> DirNode)
    @@ (<<"/", "w", "data">> :> DirNode)
    @@ (<<"/", "w", "data", "b.txt">> :> FileNode("b"))
    @@ (<<"/", "w", "data", "sub">> :> DirNode)
    @@ (<<"/", "w", "data", "sub", "c.txt">> :> FileNode("c"))

\* The trees the engine may start on: the paths of the uids to come are free
\* or taken by a directory with content, a link to a directory, a dangling
\* link, a regular file or a link to a file.
InitialTrees ==
    { BaseTree
      @@ (<<"/", "w", "01-f">> :> LinkNode(<<"data">>))
      @@ (<<"/", "w", "01-g">> :> DirNode)
      @@ (<<"/", "w", "01-g", "stale.txt">> :> FileNode("stale"))
      @@ (<<"/", "w", "02-g">> :> LinkNode(<<"nowhere">>)),
      BaseTree
      @@ (<<"/", "w", "01-g">> :> LinkNode(<<"data", "b.txt">>))
      @@ (<<"/", "w", "02-f">> :> FileNode("stale"))
      @@ (<<"/", "w", "02-g">> :> DirNode)
      @@ (<<"/", "w", "02-g", "stale.txt">> :> FileNode("stale"))
      @@ (<<"/", "w", "02-g", "outputs.json">> :> FileNode("stale")) }

\* The values run_task supplies by itself.
Ambient == {"uid", "commands", "link_file"}

\* A wrapped function as a wrapper sees it: the ambient names among its
\* declared parameters, whether it takes **kwargs, and the ambient names among
\* its local variables.
Fn(params, var_kw, locals) == [params |-> params, var_kw |-> var_kw, locals |-> locals]

\* func.__code__.co_varnames: the parameter names, then the names of the
\* local variables.
co_varnames(fn) == fn.params \cup (IF fn.var_kw THEN {"kwargs"} ELSE {}) \cup fn.locals

\* engine.py lines 82-87: the ambient names run_task adds to kwargs.
engine_ambient(fn) == {n \in Ambient : n \in co_varnames(fn)}

\* func(**kwargs): a keyword that is no parameter needs **kwargs, and every
\* parameter without default needs its keyword.
python_call(fn, passed) ==
    IF ~(passed \subseteq fn.params) /\ ~fn.var_kw THEN "TypeError"
    ELSE IF ~(fn.params \subseteq passed) THEN "TypeError"
    ELSE ""


\* The wrapped functions that run an external program.
Calculations == {<<"f">>, <<"run_scf">>, <<"run_nscf">>, <<"run_bands">>}

\* calculators/pw.py lines 152-157: a calculation declares uid, commands,
\* link_file and **kwargs; the other wrapped functions (normalize_scf,
\* require_all) declare and use none of the ambient names.
FnOf(name) == IF name \in Calculations THEN Fn(Ambient, TRUE, {}) ELSE Fn({}, FALSE, {})

\* The output mapping of a wrapped function that has not returned.
NoOutputs == [status |-> "none", error_message |-> "None", error_type |-> "None",
              total_energy |-> "None", eigenvalues |-> "None",
              band_structure |-> "absent", outdir |-> directory(<<>>)]

NoCur == [name |-> <<>>, input_model |-> "none", output_model |-> "none",
          kwargs |-> <<>>, uid |-> <<>>, k |-> 0, wrote |-> FALSE,
          program |-> "none", kpts |-> "none", outputs |-> NoOutputs,
          fn |-> Fn({}, FALSE, {}), received |-> {}, label |-> <<>>, self |-> 0]

Init ==
    /\ uids = <<>>
    /\ fs \in InitialTrees
    /\ pc = "idle"
    /\ cur = NoCur
    /\ trace = <<>>
    /\ hist = <<>>
    /\ failed = FALSE
    /\ result = "none"
    /\ pipe = <<>>

(* -------------------------- EngineABC.task.run_task ------------------- *)
\* The invocation ends by an exception e reaching the caller.
Raise(e) ==
    /\ pc' = "done"
    /\ result' = e
    /\ failed' = TRUE

\* The invocation goes on.
Go(to) ==
    /\ pc' = to
    /\ UNCHANGED <<failed, result>>

\* Lines 78-80 and 32: the callable is invoked and _pre_run assigns the uid.
Invoke ==
    /\ pc \in {"idle", "done"}
    /\ Len(hist) < MaxTasks
    /\ \E name \in Names, im \in Models, om \in Models, kw \in KwargChoices :
         LET a == assign_uid(uids, name)
         IN /\ uids' = a.uids
            /\ cur' = [NoCur EXCEPT !.name = name, !.input_model = im, !.output_model = om,
                                    !.kwargs = kw, !.uid = a.uid, !.k = 1,
                                    !.fn = FnOf(name)]
            /\ trace' = Step("assign_uid", <<name>>)
            /\ hist' = Append(hist, name)
    /\ pc' = "validate"
    /\ result' = "none"
    /\ UNCHANGED <<pipe, fs, failed>>

\* Lines 34-37.
PreRunValidate ==
    /\ pc = "validate"
    /\ LET r == pre_run_validate(fs, cur.uid, cur.input_model)
       IN /\ fs' = r.fs
          /\ trace' = trace \o r.calls
          /\ IF r.err # "" THEN Raise(r.err)
             ELSE Go("reset")
    /\ UNCHANGED <<pipe, uids, cur, hist>>

\* Faulty variant: the working directory is not reset.
PreRunReset_skipped ==
    /\ pc = "reset"
    /\ Go("stage")
    /\ UNCHANGED <<pipe, uids, fs, cur, trace, hist>>

\* Lines 41-44.
PreRunReset ==
    /\ pc = "reset"
    /\ LET r == pre_run_reset(fs, cur.uid)
       IN /\ fs' = r.fs
          /\ trace' = trace \o r.calls
          /\ IF r.err # "" THEN Raise(r.err)
             ELSE Go("stage")
    /\ UNCHANGED <<pipe, uids, cur, hist>>

\* Lines 47-57: the loop over the keyword arguments; line 59 when it ends.
PreRunStage ==
    /\ pc = "stage"
    /\ IF cur.k > Len(cur.kwargs)
       THEN /\ Go("call")
            /\ UNCHANGED <<fs, trace, cur>>
       ELSE LET r == pre_run_stage(fs, cur.uid, cur.kwargs[cur.k])
            IN /\ fs' = r.fs
               /\ trace' = trace \o r.calls
               /\ cur' = [cur EXCEPT !.k = @ + 1]
               /\ IF r.err # "" THEN Raise(r.err)
                  ELSE Go("stage")
    /\ UNCHANGED <<pipe, uids, hist>>

\* Lines 82-88: the ambient values are added and the wrapped function is called.
CallFunc ==
    /\ pc = "call"
    /\ LET injected == engine_ambient(cur.fn)
       IN /\ trace' = trace \o Step("func", <<cur.uid, injected>>)
          /\ cur' = [cur EXCEPT !.received = injected]
          /\ IF python_call(cur.fn, injected) # "" THEN Raise(python_call(cur.fn, injected))
             ELSE Go("running")
    /\ UNCHANGED <<pipe, uids, fs, hist>>

\* The wrapped function at work. f is a calculation, as run_scf, run_nscf and
\* run_bands: its external program creates the output directory <uid>/tmp and
\* writes into it; g is a pure function and writes nothing.
\* kwargs['kpoints'] is an explicit list or a BandPath (pw.py lines 92-96).
KptsKinds == {"list", "BandPath"}

func_work(tree, uid) ==
    LET outdir == PathOf(Sub(uid, <<"tmp">>))
        made == PathMkdir(tree, outdir, TRUE, TRUE)
    IN IF made.err # "" THEN made
       ELSE OpenWrite(made.fs, outdir \o <<"wfc.dat">>, "wfc")

FuncWork ==
    /\ pc = "running"
    /\ cur.name \in Calculations
    /\ ~cur.wrote
    /\ \E program \in {"ok", "failed"}, kpts \in KptsKinds :
         LET r == func_work(fs, cur.uid)
         IN /\ fs' = r.fs
            /\ cur' = [cur EXCEPT !.wrote = TRUE, !.kpts = kpts,
                                  !.program = IF r.err # "" THEN "none" ELSE program]
            /\ IF r.err # "" THEN Raise("FuncError")
               ELSE Go("running")
    /\ UNCHANGED <<pipe, uids, trace, hist>>

\* Faulty variant: run_task catches the exception and removes the working directory.
on_func_raise_cleanup(tree, uid) == delete_file(tree, directory(uid)).fs

\* What run_task does to the file tree when func raises: there is no
\* try/except around line 88, so nothing.
on_func_raise(tree, uid) == tree

\* Line 88: the wrapped function raises for a reason of its own, before its
\* external program, if it has one, has run.
FuncRaise ==
    /\ pc = "running"
    /\ cur.program = "none"
    /\ fs' = on_func_raise(fs, cur.uid)
    /\ Raise("FuncError")
    /\ UNCHANGED <<pipe, uids, cur, trace, hist>>

\* calculators/pw.py lines 113-149: the output mapping _run_pw_with_ase builds
\* once calculate() has returned or raised CalculationFailed. The results of a
\* failed program hold no energy and no eigenvalues, and BandStructure(path,
\* energies=None) raises, which lines 143-144 turn into ValueError.
run_pw_outputs(uid, program, kpts) ==
    LET status == IF program = "ok" THEN "COMPLETED" ELSE "FAILED"
        eigenvalues == IF program = "ok" THEN "eigenvalues" ELSE "None"
    IN [raised |-> kpts = "BandPath" /\ eigenvalues = "None",
        outputs |-> [status |-> status,
                     error_message |-> IF program = "ok" THEN "None" ELSE "str(error)",
                     error_type |-> IF program = "ok" THEN "None" ELSE "CalculationFailed",
                     total_energy |-> IF program = "ok" THEN "energy" ELSE "None",
                     eigenvalues |-> eigenvalues,
                     band_structure |-> IF kpts = "BandPath" THEN "BandStructure" ELSE "absent",
                     outdir |-> directory(Sub(uid, <<"tmp">>))]]

\* What the wrapped function hands back: g returns plain data.
func_outputs(name, uid, program, kpts) ==
    IF name \in Calculations THEN run_pw_outputs(uid, program, kpts)
    ELSE [raised |-> FALSE, outputs |-> [NoOutputs EXCEPT !.status = "plain"]]

\* Line 88: the wrapped function comes to its end: it returns its output
\* mapping, or raises while building it.
FuncReturn ==
    /\ pc = "running"
    /\ cur.name \in Calculations => cur.wrote
    /\ LET out == func_outputs(cur.name, cur.uid, cur.program, cur.kpts)
       IN IF out.raised
          THEN /\ fs' = on_func_raise(fs, cur.uid)
               /\ Raise("FuncError")
               /\ UNCHANGED <<cur, trace>>
          ELSE /\ trace' = trace \o Step("func_return", <<>>)
               /\ cur' = [cur EXCEPT !.outputs = out.outputs]
               /\ Go("post")
               /\ UNCHANGED fs
    /\ UNCHANGED <<pipe, uids, hist>>

\* Faulty variant: the returned mapping is dumped before it is validated.
post_run_dump_unvalidated(tree, uid, output_model) ==
    IF output_model = "none" THEN NoCall(tree)
    ELSE LET w == Called(write_to_file(tree, "outputs", single_file(Sub(uid, <<"outputs.json">>))),
                         "write_to_file", <<single_file(Sub(uid, <<"outputs.json">>))>>)
         IN IF w.err # "" THEN w
            ELSE Then(w, [fs |-> w.fs,
                          err |-> IF output_model = "invalid" THEN "ValidationError" ELSE "",
                          calls |-> Step("output_validate", <<>>)])

\* Lines 61-69: validate the outputs and dump them to <uid>/outputs.json.
post_run(tree, uid, output_model) ==
    IF output_model = "none" THEN NoCall(tree)
    ELSE IF output_model = "invalid"
         THEN [fs |-> tree, err |-> "ValidationError", calls |-> Step("output_validate", <<>>)]
         ELSE Then([fs |-> tree, err |-> "", calls |-> Step("output_validate", <<>>)],
                   Called(write_to_file(tree, "outputs", single_file(Sub(uid, <<"outputs.json">>))),
                          "write_to_file", <<single_file(Sub(uid, <<"outputs.json">>))>>))

\* Lines 89-90.
PostRun ==
    /\ pc = "post"
    /\ LET r == post_run(fs, cur.uid, cur.output_model)
       IN /\ fs' = r.fs
          /\ trace' = trace \o r.calls
          /\ IF r.err # "" THEN Raise(r.err)
             ELSE pc' = "done" /\ result' = "returned" /\ UNCHANGED failed
    /\ UNCHANGED <<pipe, uids, cur, hist>>

Next ==
    \/ Invoke
    \/ PreRunValidate
    \/ PreRunReset
    \/ PreRunStage
    \/ CallFunc
    \/ FuncWork
    \/ FuncRaise
    \/ FuncReturn
    \/ PostRun

Spec == Init /\ [][Next]_vars

(* -------------- the backend called directly (BackendSpec) ------------- *)
\* A wrapped function is handed link_file and may call it, and callers of the
\* engine may call link_file and copy_file, with any source and destination.
FileRef(parent_uid, path, dir) == [parent_uid |-> parent_uid, path |-> path, is_dir |-> dir]

\* os/local.py: Path(dct["parent_uid"]) / dct["path"]
dict_to_path(dct) == PJoin(PathOf(dct.parent_uid), PathOf(dct.path))

\* os/local.py link_file
local_link_file(tree, src, dest, recursive) ==
    link_path(tree, dict_to_path(src), dict_to_path(dest), recursive)

BackendTree ==
    BaseTree
    @@ (<<"/", "w", "old.txt">> :> FileNode("old"))
    @@ (<<"/", "w", "dir">> :> DirNode)
    @@ (<<"/", "w", "dir", "x.txt">> :> FileNode("x"))
    @@ (<<"/", "w", "lf">> :> LinkNode(<<"old.txt">>))
    @@ (<<"/", "w", "ld">> :> LinkNode(<<"dir">>))
    @@ (<<"/", "w", "dang">> :> LinkNode(<<"nowhere">>))

\* Sources: a file, a directory with files, a path where nothing is.
Sources == {single_file(Str("data", "b.txt")), directory(<<"data">>), single_file(<<"missing">>)}
\* Destinations: free, a regular file, a directory, a link to a file, a link
\* to a directory, a dangling link.
DestNames == {<<"new">>, <<"old.txt">>, <<"dir">>, <<"lf">>, <<"ld">>, <<"dang">>}
DestFor(src, d) == IF src.kind = "single_file" THEN single_file(d) ELSE directory(d)

BackendInit ==
    /\ uids = <<>>
    /\ fs = BackendTree
    /\ pc = "backend"
    /\ cur = [op |-> "none", src |-> single_file(<<>>), dest |-> single_file(<<>>),
               recursive |-> FALSE, overwrite |-> FALSE]
    /\ trace = <<>>
    /\ hist = <<>>
    /\ failed = FALSE
    /\ result = "none"
    /\ pipe = <<>>

\* One call ends: cur holds its arguments, result how it ended.
Ended(op, src, dest, recursive, overwrite, r) ==
    /\ fs' = r.fs
    /\ cur' = [op |-> op, src |-> src, dest |-> dest, recursive |-> recursive,
               overwrite |-> overwrite]
    /\ trace' = r.calls
    /\ result' = IF r.err = "" THEN "ok" ELSE r.err
    /\ failed' = (failed \/ r.err # "")
    /\ hist' = Append(hist, <<"call">>)
    /\ UNCHANGED <<pipe, uids, pc>>

\* LocalhostEngine.link_file(src, dest, recursive, overwrite)
CallLinkFile ==
    /\ pc = "backend" /\ Len(hist) < MaxOps
    /\ \E src \in Sources, d \in DestNames, rec \in BOOLEAN, ow \in BOOLEAN :
         Ended("link_file", src, DestFor(src, d), rec, ow,
               Engine_link_file(fs, src, DestFor(src, d), rec, ow))

\* LocalhostEngine.copy_file(src, dest, overwrite)
CallCopyFile ==
    /\ pc = "backend" /\ Len(hist) < MaxOps
    /\ \E src \in Sources, d \in DestNames, ow \in BOOLEAN :
         Ended("copy_file", src, DestFor(src, d), FALSE, ow,
               Engine_copy_file(fs, src, DestFor(src, d), ow))

\* os/local.py link_file(src, dest, recursive)
CallLocalLinkFile ==
    /\ pc = "backend" /\ Len(hist) < MaxOps
    /\ \E src \in Sources, d \in DestNames, rec \in BOOLEAN :
         LET r == local_link_file(fs, FileRef(<<".">>, src.uid, src.kind = "directory"),
                                  FileRef(<<".">>, d, src.kind = "directory"), rec)
         IN Ended("local_link_file", src, DestFor(src, d), rec, FALSE,
                  [fs |-> r.fs, err |-> r.err, calls |-> <<>>])

BackendNext ==
    \/ CallLinkFile
    \/ CallCopyFile
    \/ CallLocalLinkFile

BackendSpec == BackendInit /\ [][BackendNext]_vars

(* ------------- tasks chained by their output directory ---------------- *)
\* The keyword arguments of an invocation that follows a returned one: when
\* the mapping returned holds an output directory, it is handed on by a link
\* directive {src: that directory, dest: tmp, symlink, recursive, overwrite}.
ChainKwargs(at, res, outputs) ==
    IF at = "done" /\ res = "returned" /\ outputs.outdir.uid # <<>>
    THEN <<Value, LinkDict(outputs.outdir, <<"tmp">>, TRUE, TRUE, TRUE)>>
    ELSE <<Value>>

\* run_task lines 78-80 and 32, the caller passing on the outdir returned before.
ChainInvoke ==
    /\ pc \in {"idle", "done"}
    /\ Len(hist) < MaxTasks
    /\ \E name \in Names, im \in Models, om \in Models :
         LET a == assign_uid(uids, name)
         IN /\ uids' = a.uids
            /\ cur' = [NoCur EXCEPT !.name = name, !.input_model = im, !.output_model = om,
                                    !.kwargs = ChainKwargs(pc, result, cur.outputs),
                                    !.uid = a.uid, !.k = 1, !.fn = FnOf(name)]
            /\ trace' = Step("assign_uid", <<name>>)
            /\ hist' = Append(hist, name)
    /\ pc' = "validate"
    /\ result' = "none"
    /\ UNCHANGED <<pipe, fs, failed>>

ChainNext ==
    \/ ChainInvoke
    \/ PreRunValidate
    \/ PreRunReset
    \/ PreRunStage
    \/ CallFunc
    \/ FuncWork
    \/ FuncRaise
    \/ FuncReturn
    \/ PostRun

ChainSpec == Init /\ [][ChainNext]_vars

(* ------------- any function behind either task wrapper ----------------- *)
\* The functions a wrapper may be given: any ambient names among the
\* parameters, any others among the local variables, with or without **kwargs.
FnChoices ==
    { Fn(params, var_kw, locals) :
        params \in SUBSET Ambient, var_kw \in BOOLEAN, locals \in SUBSET Ambient }
    \ { fn \in [params : SUBSET Ambient, var_kw : BOOLEAN, locals : SUBSET Ambient] :
          fn.params \cap fn.locals # {} }

\* The name keyword a caller may give a task wrapper.
Labels == {<<>>, <<"pw-scf">>}

\* scf_nscf_bands.py lines 130-131: the ambient names with_injected_args adds.
aiida_ambient(fn) == {n \in {"commands"} : n \in co_varnames(fn)}

\* Engine.task(func)(**kwargs) for any function, the caller passing plain data.
AmbientInvoke ==
    /\ pc = "idle"
    /\ hist = <<>>
    /\ \E fn \in FnChoices :
         LET a == assign_uid(uids, <<"g">>)
         IN /\ uids' = a.uids
            /\ cur' = [NoCur EXCEPT !.name = <<"g">>, !.kwargs = <<Value>>,
                                    !.uid = a.uid, !.k = 1, !.fn = fn]
            /\ trace' = Step("assign_uid", <<<<"g">>>>)
            /\ hist' = Append(hist, <<"g">>)
    /\ pc' = "validate"
    /\ result' = "none"
    /\ UNCHANGED <<pipe, fs, failed>>

\* make_aiida_task_wrapper lines 124-133: wrapper(func, name)(**kwargs). The
\* name goes into metadata['call_link_label'], commands is added when
\* co_varnames holds it, and the graph task built from func is called with
\* these keyword arguments; the engine, its ledger and the storage have no part.
AiidaCall ==
    /\ pc = "idle"
    /\ hist = <<>>
    /\ \E fn \in FnChoices, label \in Labels :
         LET injected == aiida_ambient(fn)
             name == IF label # <<>> THEN label ELSE <<"g">>
         IN /\ cur' = [NoCur EXCEPT !.name = name, !.kwargs = <<Value>>, !.fn = fn,
                                    !.received = injected, !.label = label]
            /\ trace' = Step("aiida_task", <<name, injected>>)
            /\ hist' = Append(hist, name)
            /\ result' = IF python_call(fn, injected) # "" THEN python_call(fn, injected)
                         ELSE "returned"
            /\ failed' = (python_call(fn, injected) # "")
    /\ pc' = "done"
    /\ UNCHANGED <<pipe, uids, fs>>

\* A plain function has no external program, so FuncWork has no part.
AmbientNext ==
    \/ AmbientInvoke
    \/ AiidaCall
    \/ PreRunValidate
    \/ PreRunReset
    \/ PreRunStage
    \/ CallFunc
    \/ FuncRaise
    \/ FuncReturn
    \/ PostRun

AmbientSpec == Init /\ [][AmbientNext]_vars

(* ------------ workgraphs/scf_nscf_bands.py: the pipeline -------------- *)
\* The number of calls of the task wrapper in run_scf_nscf_bands_core.
NCalls == 9

\* Lines 66-94: the i-th call of the task wrapper: the wrapped function, the
\* name keyword given to the wrapper (none: <<>>) and the keyword arguments of
\* the invocation, built from outs, the mappings returned by the calls before.
\* A parameters mapping, atoms and k-points are plain values; outdir is the
\* directory reference found in the outputs of the calculation before.
PipelineCall(i, outs) ==
    CASE i = 1 -> [func |-> <<"normalize_scf">>, label |-> <<>>, kwargs |-> <<Value, Value>>]
      [] i = 2 -> [func |-> <<"require_all">>, label |-> <<>>, kwargs |-> <<Value, Value>>]
      [] i = 3 -> [func |-> <<"run_scf">>, label |-> <<"pw-scf">>,
                   kwargs |-> <<Value, Value, Value>>]
      [] i = 4 -> [func |-> <<"normalize_nscf">>, label |-> <<>>, kwargs |-> <<Value, Value>>]
      [] i = 5 -> [func |-> <<"require_all">>, label |-> <<>>, kwargs |-> <<Value, Value>>]
      [] i = 6 -> [func |-> <<"run_nscf">>, label |-> <<"pw-nscf">>,
                   kwargs |-> <<Value, Value, outs[3].outdir, Value>>]
      [] i = 7 -> [func |-> <<"normalize_bands">>, label |-> <<>>, kwargs |-> <<Value, Value>>]
      [] i = 8 -> [func |-> <<"require_all">>, label |-> <<>>, kwargs |-> <<Value, Value>>]
      [] i = 9 -> [func |-> <<"run_bands">>, label |-> <<"pw-bands">>,
                   kwargs |-> <<Value, Value, outs[6].outdir, Value>>]

\* Lines 96-99: the mapping run_scf_nscf_bands_core returns.
PipelineOutputs(outs) ==
    [NoOutputs EXCEPT !.status = "workflow",
                      !.total_energy = outs[3].total_energy,
                      !.band_structure = outs[9].band_structure]

\* engine.py lines 71-76: EngineABC.task(func, input_model, output_model) has
\* no parameter called name, so a call that passes name= raises TypeError.
Engine_task(label) == IF label # <<>> THEN "TypeError" ELSE ""

\* Faulty variant: the pipeline goes on to its next call after a task has raised.
pipeline_goes_on_after_raise(at, res) == at \in {"core", "done"}

\* Lines 62-99 hold no try/except: the next call is reached only when the
\* call before has returned.
pipeline_goes_on(at, res) == at = "core" \/ (at = "done" /\ res = "returned")

\* What a working directory of the run may hold from an earlier run.
Leftovers == {"absent", "dir", "file", "linkdir", "dangling"}
Occupied(tree, p, kind) ==
    CASE kind = "absent" -> tree
      [] kind = "dir" -> Put(Put(tree, p, DirNode), p \o <<"stale.txt">>, FileNode("stale"))
      [] kind = "file" -> Put(tree, p, FileNode("stale"))
      [] kind = "linkdir" -> Put(tree, p, LinkNode(<<"data">>))
      [] kind = "dangling" -> Put(tree, p, LinkNode(<<"nowhere">>))

PipelineTrees ==
    { Occupied(Occupied(BaseTree, CWD \o <<"01-normalize_scf">>, a),
               CWD \o <<"02-require_all">>, b) : a \in Leftovers, b \in Leftovers }

\* test_run_scf_nscf_bands: a fresh LocalhostEngine, then run_scf_nscf_bands.
PipelineInit ==
    /\ uids = <<>>
    /\ fs \in PipelineTrees
    /\ pc = "adapt"
    /\ cur = NoCur
    /\ trace = <<>>
    /\ hist = <<>>
    /\ failed = FALSE
    /\ result = "none"
    /\ pipe = <<>>

\* run_scf_nscf_bands line 112: adapt_pw_input validates the workflow inputs.
Adapt ==
    /\ pc = "adapt"
    /\ \E valid \in BOOLEAN :
         IF valid THEN pc' = "core" /\ UNCHANGED result
         ELSE pc' = "ended" /\ result' = "ValidationError"
    /\ UNCHANGED <<pipe, uids, fs, cur, trace, hist, failed>>

\* Lines 66-99 and 113-114: the mapping of the call before is kept, then the
\* pipeline calls task(func[, name=...])(**kwargs) for its next task (run_task
\* lines 78-80 and 32, the task named func.__name__ as no metadata is passed),
\* or returns its result after the last one.
PipeCall ==
    /\ pipeline_goes_on(pc, result)
    /\ LET outs == IF pc = "done" THEN Append(pipe, cur.outputs) ELSE pipe
           i == Len(outs) + 1
       IN /\ pipe' = outs
          /\ IF i > NCalls
             THEN /\ pc' = "ended"
                  /\ result' = "returned"
                  /\ cur' = [NoCur EXCEPT !.outputs = PipelineOutputs(outs)]
                  /\ UNCHANGED <<uids, fs, trace, hist, failed>>
             ELSE LET c == PipelineCall(i, outs)
                      a == assign_uid(uids, c.func)
                  IN IF Engine_task(c.label) # ""
                     THEN /\ pc' = "ended"
                          /\ result' = Engine_task(c.label)
                          /\ UNCHANGED <<uids, fs, cur, trace, hist, failed>>
                     ELSE /\ uids' = a.uids
                          /\ cur' = [NoCur EXCEPT !.name = c.func, !.kwargs = c.kwargs,
                                                  !.uid = a.uid, !.k = 1,
                                                  !.fn = FnOf(c.func)]
                          /\ trace' = Step("assign_uid", <<c.func>>)
                          /\ hist' = Append(hist, c.func)
                          /\ pc' = "validate"
                          /\ result' = "none"
                          /\ UNCHANGED <<fs, failed>>

\* The external program of a calculation (FuncWork) is left out: no
\* calculation is invoked, as the first call that wraps one passes name=.
PipelineNext ==
    \/ Adapt
    \/ PipeCall
    \/ PreRunValidate
    \/ PreRunReset
    \/ PreRunStage
    \/ CallFunc
    \/ FuncRaise
    \/ FuncReturn
    \/ PostRun

PipelineSpec == PipelineInit /\ [][PipelineNext]_vars

(* ----------------- several Engine instances (EnginesSpec) -------------- *)
\* Engine instances constructed per behaviour of EnginesSpec.
MaxEngines == 2

\* Faulty variant: the default list is an attribute of the class, one list
\* object that every instance appends to.
ledger_owners_shared_default(e, instances) == instances

\* engine.py line 14: uids is a field of a pydantic model with the default [];
\* pydantic hands every new instance a copy of a mutable default, so the list
\* object of instance e is the ledger of e and of no other instance.
ledger_owners(e, instances) == {e}

\* In EnginesSpec the variable uids holds one ledger per instance, in the
\* order of construction, and cur.self is the instance run_task is bound to.
EnginesInit ==
    /\ uids = <<>>
    /\ fs \in InitialTrees
    /\ pc = "idle"
    /\ cur = NoCur
    /\ trace = <<>>
    /\ hist = <<>>
    /\ failed = FALSE
    /\ result = "none"
    /\ pipe = <<>>

\* LocalhostEngine(commands=...): the new instance starts with what the
\* default list of its owners holds.
Construct ==
    /\ pc \in {"idle", "done"}
    /\ Len(uids) < MaxEngines
    /\ LET e == Len(uids) + 1
           same == ledger_owners(e, 1..e) \ {e}
       IN uids' = Append(uids, IF same = {} THEN <<>> ELSE uids[CHOOSE i \in same : TRUE])
    /\ UNCHANGED <<pipe, fs, pc, cur, trace, hist, failed, result>>

\* run_task lines 78-80 and 32 on the instance e.
EngineInvoke ==
    /\ pc \in {"idle", "done"}
    /\ Len(hist) < MaxTasks
    /\ \E e \in 1..Len(uids), name \in Names, om \in Models :
         LET a == assign_uid(uids[e], name)
         IN /\ uids' = [i \in 1..Len(uids) |->
                          IF i \in ledger_owners(e, 1..Len(uids)) THEN a.uids ELSE uids[i]]
            /\ cur' = [NoCur EXCEPT !.name = name, !.output_model = om,
                                    !.kwargs = <<Value>>, !.uid = a.uid, !.k = 1,
                                    !.fn = FnOf(name), !.self = e]
            /\ trace' = Step("assign_uid", <<name>>)
            /\ hist' = Append(hist, name)
    /\ pc' = "validate"
    /\ result' = "none"
    /\ UNCHANGED <<pipe, fs, failed>>

EnginesNext ==
    \/ Construct
    \/ EngineInvoke
    \/ PreRunValidate
    \/ PreRunReset
    \/ PreRunStage
    \/ CallFunc
    \/ FuncWork
    \/ FuncRaise
    \/ FuncReturn
    \/ PostRun

EnginesSpec == EnginesInit /\ [][EnginesNext]_vars

(* ------------- links between working directories (LinksSpec) --------- *)
\* Two working directories under the directory of the run, 01-a with an
\* output file, a link to it and an output directory tmp (files, a nested
\* directory, a link to a file, a link to a directory, an empty directory),
\* 02-b with a directory in, via as a link to 02-b, and a file outside the
\* directory of the run, as the pseudopotential files of pw.py line 109.
LinkTree ==
    (<<"/">> :> DirNode) @@ (<<"/", "w">> :> DirNode)
    @@ (<<"/", "opt">> :> DirNode)
    @@ (<<"/", "opt", "pp.upf">> :> FileNode("pp"))
    @@ (<<"/", "w", "01-a">> :> DirNode)
    @@ (<<"/", "w", "01-a", "out.dat">> :> FileNode("out"))
    @@ (<<"/", "w", "01-a", "alias">> :> LinkNode(<<"out.dat">>))
    @@ (<<"/", "w", "01-a", "tmp">> :> DirNode)
    @@ (<<"/", "w", "01-a", "tmp", "wfc.dat">> :> FileNode("wfc"))
    @@ (<<"/", "w", "01-a", "tmp", "sub">> :> DirNode)
    @@ (<<"/", "w", "01-a", "tmp", "sub", "x.dat">> :> FileNode("x"))
    @@ (<<"/", "w", "01-a", "tmp", "sub", "lnk">> :> LinkNode(<<"..", "wfc.dat">>))
    @@ (<<"/", "w", "01-a", "tmp", "dlink">> :> LinkNode(<<"sub">>))
    @@ (<<"/", "w", "01-a", "tmp", "empty">> :> DirNode)
    @@ (<<"/", "w", "02-b">> :> DirNode)
    @@ (<<"/", "w", "02-b", "in">> :> DirNode)
    @@ (<<"/", "w", "via">> :> LinkNode(<<"02-b">>))

\* Sources: a file, a link to a file, a file outside the run, a directory.
LinkSources ==
    {single_file(<<"01-a", "/", "out.dat">>), single_file(<<"01-a", "/", "alias">>),
     single_file(<<"/", "opt", "/", "pp.upf">>), directory(<<"01-a", "/", "tmp">>)}
\* Destinations: in a working directory, in one reached through a link, in a
\* directory below one.
LinkDests == {<<"02-b", "/", "new">>, <<"via", "/", "new">>, <<"02-b", "/", "in", "/", "new">>}

LinksInit ==
    /\ uids = <<>>
    /\ fs = LinkTree
    /\ pc = "links"
    /\ cur = [op |-> "none", src |-> single_file(<<>>), dest |-> single_file(<<>>),
               recursive |-> FALSE, overwrite |-> FALSE]
    /\ trace = <<>>
    /\ hist = <<>>
    /\ failed = FALSE
    /\ result = "none"
    /\ pipe = <<>>

\* engines/localhost.py link_file(src, dest, recursive)
CallBackendLinkFile ==
    /\ pc = "links" /\ Len(hist) < MaxOps
    /\ \E src \in LinkSources, d \in LinkDests, rec \in BOOLEAN :
         Ended("link_file", src, DestFor(src, d), rec, FALSE,
               Called(link_file(fs, src, DestFor(src, d), rec), "_link_file",
                      <<src, DestFor(src, d), rec>>))

\* os/local.py link_path(src, dest, recursive)
CallLinkPath ==
    /\ pc = "links" /\ Len(hist) < MaxOps
    /\ \E src \in LinkSources, d \in LinkDests, rec \in BOOLEAN :
         LET r == link_path(fs, PathOf(src.uid), PathOf(d), rec)
         IN Ended("link_path", src, DestFor(src, d), rec, FALSE,
                  [fs |-> r.fs, err |-> r.err, calls |-> <<>>])

LinksNext ==
    \/ CallBackendLinkFile
    \/ CallLinkPath

LinksSpec == LinksInit /\ [][LinksNext]_vars

(* ------------ names chosen by the caller (CallerNamesSpec) ------------ *)
\* Task names (metadata['call_link_label'], engine.py lines 78-79): plain,
\* with a separator, starting with a parent reference.
CallerTaskNames == {<<"f">>, <<"a", "/", "b">>, <<"..", "/", "f">>}
\* Destination names of a link directive (engine.py lines 51 and 53): plain,
\* absolute, leading out of the working directory.
CallerDestNames == {<<"tmp">>, <<"/", "abs">>, <<"..", "/", "shared.txt">>}

\* The directory of the run holds a file next to the working directories and
\* the working directory 01-f of an earlier run.
CallerTree ==
    BaseTree
    @@ (<<"/", "w", "shared.txt">> :> FileNode("shared"))
    @@ (<<"/", "w", "01-f">> :> DirNode)
    @@ (<<"/", "w", "01-f", "stale.txt">> :> FileNode("stale"))

CallerInit ==
    /\ uids = <<>>
    /\ fs = CallerTree
    /\ pc = "idle"
    /\ cur = NoCur
    /\ trace = <<>>
    /\ hist = <<>>
    /\ failed = FALSE
    /\ result = "none"
    /\ pipe = <<>>

\* run_task lines 78-80 and 32, the caller choosing the task name and the
\* destination name, the mode and the overwrite flag of one link directive.
CallerInvoke ==
    /\ pc = "idle"
    /\ hist = <<>>
    /\ \E name \in CallerTaskNames, d \in CallerDestNames, symlink \in BOOLEAN,
          overwrite \in BOOLEAN, im \in {"none", "valid"}, om \in {"none", "valid"} :
         LET a == assign_uid(uids, name)
         IN /\ uids' = a.uids
            /\ cur' = [NoCur EXCEPT !.name = name, !.input_model = im, !.output_model = om,
                                    !.kwargs = <<LinkDict(single_file(Str("data", "b.txt")), d,
                                                          symlink, FALSE, overwrite)>>,
                                    !.uid = a.uid, !.k = 1, !.fn = FnOf(name)]
            /\ trace' = Step("assign_uid", <<name>>)
            /\ hist' = Append(hist, name)
    /\ pc' = "validate"
    /\ result' = "none"
    /\ UNCHANGED <<pipe, fs, failed>>

CallerNext ==
    \/ CallerInvoke
    \/ PreRunValidate
    \/ PreRunReset
    \/ PreRunStage
    \/ CallFunc
    \/ FuncWork
    \/ FuncRaise
    \/ FuncReturn
    \/ PostRun

CallerNamesSpec == CallerInit /\ [][CallerNext]_vars

(* -------- links into the directory of another task (OtherTaskSpec) ---- *)
\* The working directory 01-f of another task, with an output file and an
\* output directory, and the working directory 01-g of an earlier run of g,
\* which holds a file-level and a directory-level link into 01-f.
OtherTaskTree ==
    BaseTree
    @@ (<<"/", "w", "01-f">> :> DirNode)
    @@ (<<"/", "w", "01-f", "out.dat">> :> FileNode("out"))
    @@ (<<"/", "w", "01-f", "tmp">> :> DirNode)
    @@ (<<"/", "w", "01-f", "tmp", "wfc.dat">> :> FileNode("wfc"))
    @@ (<<"/", "w", "01-g">> :> DirNode)
    @@ (<<"/", "w", "01-g", "out.dat">> :> LinkNode(<<"..", "01-f", "out.dat">>))
    @@ (<<"/", "w", "01-g", "tmp">> :> LinkNode(<<"..", "01-f", "tmp">>))

\* Two link directives with the same destination name: the first stages a
\* link into 01-f, the second replaces or overwrites what the first staged.
OtherTaskKwargs ==
    { <<LinkDict(directory(Str("01-f", "tmp")), <<"tmp">>, TRUE, FALSE, TRUE),
        LinkDict(directory(<<"data">>), <<"tmp">>, sym, FALSE, ow)>> :
          sym \in BOOLEAN, ow \in BOOLEAN }
    \cup
    { <<LinkDict(single_file(Str("01-f", "out.dat")), <<"out.dat">>, TRUE, FALSE, TRUE),
        LinkDict(single_file(Str("data", "b.txt")), <<"out.dat">>, sym, FALSE, ow)>> :
          sym \in BOOLEAN, ow \in BOOLEAN }

OtherTaskInit ==
    /\ uids = <<>>
    /\ fs = OtherTaskTree
    /\ pc = "idle"
    /\ cur = NoCur
    /\ trace = <<>>
    /\ hist = <<>>
    /\ failed = FALSE
    /\ result = "none"
    /\ pipe = <<>>

\* run_task lines 78-80 and 32: the task g is invoked on a fresh engine.
OtherTaskInvoke ==
    /\ pc = "idle"
    /\ hist = <<>>
    /\ \E kw \in OtherTaskKwargs, im \in Models, om \in Models :
         LET a == assign_uid(uids, <<"g">>)
         IN /\ uids' = a.uids
            /\ cur' = [NoCur EXCEPT !.name = <<"g">>, !.input_model = im, !.output_model = om,
                                    !.kwargs = kw, !.uid = a.uid, !.k = 1,
                                    !.fn = FnOf(<<"g">>)]
            /\ trace' = Step("assign_uid", <<<<"g">>>>)
            /\ hist' = Append(hist, <<"g">>)
    /\ pc' = "validate"
    /\ result' = "none"
    /\ UNCHANGED <<pipe, fs, failed>>

\* g has no external program, so FuncWork has no part.
OtherTaskNext ==
    \/ OtherTaskInvoke
    \/ PreRunValidate
    \/ PreRunReset
    \/ PreRunStage
    \/ CallFunc
    \/ FuncRaise
    \/ FuncReturn
    \/ PostRun

OtherTaskSpec == OtherTaskInit /\ [][OtherTaskNext]_vars

(* ------- two invocations on one engine at once (ConcurrentSpec) ------- *)
\* The threads that call a wrapped task of the same Engine instance. In
\* ConcurrentSpec pc and cur hold one entry per thread.
Threads == {1, 2}

ConcurrentInit ==
    /\ uids = <<>>
    /\ fs = BaseTree
    /\ pc = [t \in Threads |-> "idle"]
    /\ cur = [t \in Threads |-> NoCur]
    /\ trace = <<>>
    /\ hist = <<>>
    /\ failed = FALSE
    /\ result = "none"
    /\ pipe = <<>>

\* run_task lines 78-80: thread t calls the task; _pre_run is entered.
ThreadCall(t) ==
    /\ pc[t] = "idle"
    /\ \E name \in Names :
         /\ cur' = [cur EXCEPT ![t] = [NoCur EXCEPT !.name = name, !.fn = FnOf(name)]]
         /\ hist' = Append(hist, name)
    /\ pc' = [pc EXCEPT ![t] = "format"]
    /\ UNCHANGED <<pipe, uids, fs, trace, failed, result>>

\* assign_uid line 155: the uid is formatted from the length of the ledger.
ThreadFormatUid(t) ==
    /\ pc[t] = "format"
    /\ cur' = [cur EXCEPT ![t].uid = uid_for(uids, cur[t].name)]
    /\ pc' = [pc EXCEPT ![t] = "append"]
    /\ UNCHANGED <<pipe, uids, fs, trace, hist, failed, result>>

\* assign_uid line 156: the uid is appended to the ledger.
ThreadAppendUid(t) ==
    /\ pc[t] = "append"
    /\ uids' = Append(uids, cur[t].uid)
    /\ pc' = [pc EXCEPT ![t] = "reset"]
    /\ UNCHANGED <<pipe, fs, cur, trace, hist, failed, result>>

\* _pre_run lines 41-44 in thread t.
ThreadReset(t) ==
    /\ pc[t] = "reset"
    /\ LET r == pre_run_reset(fs, cur[t].uid)
       IN /\ fs' = r.fs
          /\ pc' = [pc EXCEPT ![t] = IF r.err # "" THEN "done" ELSE "running"]
          /\ failed' = (failed \/ r.err # "")
    /\ UNCHANGED <<pipe, uids, cur, trace, hist, result>>

\* Line 88 in thread t: the wrapped function runs to its end; a calculation
\* writes into its working directory.
ThreadWork(t) ==
    /\ pc[t] = "running"
    /\ LET r == IF cur[t].name \in Calculations THEN func_work(fs, cur[t].uid) ELSE Ok(fs)
       IN /\ fs' = r.fs
          /\ cur' = [cur EXCEPT ![t].wrote = (cur[t].name \in Calculations /\ r.err = "")]
          /\ failed' = (failed \/ r.err # "")
    /\ pc' = [pc EXCEPT ![t] = "done"]
    /\ UNCHANGED <<pipe, uids, trace, hist, result>>

ConcurrentNext ==
    \E t \in Threads :
      \/ ThreadCall(t)
      \/ ThreadFormatUid(t)
      \/ ThreadAppendUid(t)
      \/ ThreadReset(t)
      \/ ThreadWork(t)

ConcurrentSpec == ConcurrentInit /\ [][ConcurrentNext]_vars

(* ============================== claims ================================ *)
Ops(t, S) == SelectSeq(t, LAMBDA e : e.op \in S)
Has(t, S) == \E i \in 1..Len(t) : t[i].op \in S
\* Backend calls that change the storage.
Mutating == {"delete_file", "mkdir", "_link_file", "_copy_file", "write_to_file"}
WorkDir(uid) == PathOf(uid)
InWorkDir(uid, name) == PathOf(Sub(uid, name))

\* k written with two digits, for k below 100
TwoDigits(k) == <<DigitChars[(k \div 10) + 1], DigitChars[(k % 10) + 1]>>

\* C1: the k-th invocation on the engine, in call order, gets the uid made of
\* k zero-padded to two digits, a hyphen and its task name, whether or not
\* that invocation or an earlier one fails.
C1_UidsAreOrdinalAndName ==
    /\ Len(uids) = Len(hist)
    /\ \A k \in 1..Len(uids) : uids[k] = TwoDigits(k) \o <<"-">> \o hist[k]

\* A second invocation has returned after an earlier one has failed.
C1_Witness == Len(uids) >= 2 /\ failed /\ pc = "done" /\ result = "returned"

NoDuplicateUids == \A i, j \in 1..Len(uids) : i # j => uids[i] # uids[j]

\* C2: the ledger is append-only: an invocation appends exactly one uid, no
\* other step changes the ledger, no entry is ever changed or removed, and no
\* two entries are equal, also for invocations with the same task name.
C2_LedgerAppendOnly ==
    /\ []NoDuplicateUids
    /\ [][/\ IsPrefix(uids, uids')
          /\ Len(uids') = Len(uids) + (IF Len(hist') > Len(hist) THEN 1 ELSE 0)]_vars

\* Two invocations with the same task name, the later one failed.
C2_Witness == Len(uids) = 2 /\ hist[1] = hist[2] /\ pc = "done" /\ result # "returned"

RealEmptyDir(tree, uid) ==
    /\ IsDir(tree, WorkDir(uid))
    /\ ~IsSymlink(tree, WorkDir(uid))
    /\ Listdir(tree, Resolve(tree, WorkDir(uid))) = {}

\* C3: whatever is at the path of the assigned uid beforehand, the reset step
\* of _pre_run completes and leaves a real, empty directory there.
C3_ResetLeavesEmptyDir ==
    [][pc = "reset" => pc' = "stage" /\ RealEmptyDir(fs', cur.uid)]_vars

\* C4: the wrapped function is invoked only after the uid was assigned, the
\* inputs were validated, the working directory was reset and every link
\* directive was staged; outputs are validated and dumped only after the
\* wrapped function has returned.
C4_LifecycleOrder ==
    \A i \in 1..Len(trace) :
      /\ trace[i].op = "func" =>
           LET before == SubSeq(trace, 1, i - 1)
           IN /\ before # <<>> /\ before[1].op = "assign_uid"
              /\ cur.uid = uids[Len(uids)]
              /\ cur.input_model # "invalid"
              /\ cur.input_model = "valid" => Has(before, {"model_validate"})
              /\ \E j \in 1..Len(before) :
                    before[j].op = "mkdir" /\ before[j].args = <<directory(cur.uid)>>
              /\ Len(Ops(before, {"link_file", "copy_file"}))
                   = Len(SelectSeq(cur.kwargs, IsLink))
      /\ (\/ trace[i].op = "output_validate"
          \/ /\ trace[i].op = "write_to_file"
             /\ trace[i].args = <<single_file(Sub(cur.uid, <<"outputs.json">>))>>)
           => Has(SubSeq(trace, 1, i - 1), {"func_return"})

\* An invocation with both schemas and a link directive has returned.
C4_Witness ==
    /\ pc = "done" /\ result = "returned"
    /\ cur.input_model = "valid" /\ cur.output_model = "valid"
    /\ Has(trace, {"_link_file"})

\* C5: with an input schema and valid inputs, <uid>/inputs.json is present
\* when the wrapped function is invoked and still present after it raised,
\* while <uid>/outputs.json is absent.
C5_InputsJsonPresent ==
    (cur.input_model = "valid" /\ (pc = "running" \/ (pc = "done" /\ result = "FuncError")))
      => /\ IsFile(fs, InWorkDir(cur.uid, <<"inputs.json">>))
         /\ ~Exists(fs, InWorkDir(cur.uid, <<"outputs.json">>))

\* C6: when the wrapped function raises, the caller gets that exception, the
\* working directory and everything else on storage stay as they are,
\* outputs.json is not written and the uid stays in the ledger.
C6_FuncRaiseLeavesAll ==
    /\ [][(pc = "running" /\ pc' = "done" /\ cur' = cur)
            => /\ result' = "FuncError"
               /\ fs' = fs
               /\ uids' = uids
               /\ trace' = trace]_vars
    /\ []((pc = "done" /\ result = "FuncError")
            => /\ uids # <<>> /\ uids[Len(uids)] = cur.uid
               /\ IsDir(fs, WorkDir(cur.uid))
               /\ ~Has(trace, {"func_return", "output_validate"})
               /\ ~Exists(fs, InWorkDir(cur.uid, <<"outputs.json">>)))

\* The function raised after it had written into a directory with staged content.
C6_Witness ==
    /\ pc = "done" /\ result = "FuncError" /\ cur.wrote
    /\ Has(trace, {"_copy_file"})
    /\ IsFile(fs, InWorkDir(cur.uid, <<"tmp", "/", "wfc.dat">>))

\* C7: when the keyword arguments fail the input schema, the invocation
\* raises a validation error before any storage-mutating backend call, and
\* the wrapped function is not invoked.
C7_InvalidInputsTouchNothing ==
    /\ [][(pc = "validate" /\ cur.input_model = "invalid")
            => pc' = "done" /\ result' = "ValidationError" /\ fs' = fs]_vars
    /\ []((cur.input_model = "invalid" /\ pc # "validate")
            => /\ pc = "done" /\ result = "ValidationError"
               /\ ~Has(trace, Mutating \cup {"func"}))

\* A second invocation failed validation of its inputs.
C7_Witness ==
    /\ pc = "done" /\ result = "ValidationError" /\ cur.input_model = "invalid"
    /\ Len(uids) = 2

\* The link directives among the keyword arguments the loop has gone through.
Staged == SelectSeq(SubSeq(cur.kwargs, 1, cur.k - 1), IsLink)

\* C8: every keyword argument that is a link directive is staged at
\* <uid>/<destination name>, the destination being of the source's kind, by
\* link_file when the directive asks for a symlink and by copy_file otherwise,
\* with the directive's overwrite flag; other keyword arguments cause no
\* link, copy or delete call.
C8_StagingFollowsDirectives ==
    pc \in {"stage", "call", "running", "post", "done"} =>
      LET steps == Ops(trace, {"link_file", "copy_file"})
      IN /\ Len(steps) = Len(Staged)
         /\ \A i \in 1..Len(steps) :
              LET kw == Staged[i]
                  dest == [kind |-> kw.src.kind, uid |-> cur.uid \o <<"/">> \o kw.dest]
              IN /\ steps[i].op = (IF kw.symlink THEN "link_file" ELSE "copy_file")
                 /\ steps[i].args[1] = kw.src
                 /\ steps[i].args[2] = dest
                 /\ steps[i].args[Len(steps[i].args)] = kw.overwrite
         /\ Len(Ops(trace, {"_link_file", "_copy_file"})) <= Len(Staged)
         /\ Len(SelectSeq(trace, LAMBDA e : e.op = "delete_file"
                                            /\ e.args # <<directory(cur.uid)>>))
              <= Len(SelectSeq(Staged, LAMBDA kw : kw.overwrite))

\* Staging went through a keyword argument that is a dictionary but no link
\* directive and through a copy directive, and the function is about to run.
C8_Witness ==
    /\ pc = "call"
    /\ Len(cur.kwargs) = 2 /\ ~IsLink(cur.kwargs[1]) /\ cur.kwargs[1].kind = "single_file"
    /\ Has(trace, {"_copy_file"})

\* The files below the directory at p, as paths relative to it.
FilesBelow(tree, p) == {r \in Rglob(tree, p) : ~IsDir(tree, p \o r)}

\* C9: staging through the engine a link directive with symlink mode and
\* recursive set, whose source is a directory containing files, yields one
\* file-level symlink per source file and no directory-level symlink.
C9_RecursiveStagingLinksFiles ==
    pc = "call" =>
      \A i \in 1..Len(cur.kwargs) :
        LET kw == cur.kwargs[i]
        IN (IsLink(kw) /\ kw.symlink /\ kw.recursive /\ IsDir(fs, PathOf(kw.src.uid)))
             => /\ ~IsSymlink(fs, InWorkDir(cur.uid, kw.dest))
                /\ \A r \in FilesBelow(fs, PathOf(kw.src.uid)) :
                     IsSymlink(fs, InWorkDir(cur.uid, kw.dest) \o r)

\* C10: link_file and copy_file with overwrite=False onto a destination that
\* exists fail with an error and leave the storage as it was.
C10_NoOverwriteFailsClean ==
    [][(hist' # hist /\ ~cur'.overwrite /\ file_exists(fs, cur'.dest))
         => result' # "ok" /\ fs' = fs]_vars

\* What is found at p: the content of a file, the files of a directory with
\* their contents, or nothing.
ContentAt(tree, p) ==
    IF IsDir(tree, p)
    THEN [r \in FilesBelow(tree, p) |->
            IF IsFile(tree, p \o r) THEN tree[Resolve(tree, p \o r)].content ELSE ""]
    ELSE IF IsFile(tree, p) THEN <<tree[Resolve(tree, p)].content>>
    ELSE <<>>

\* C11: link_file and copy_file with overwrite=True from an existing source
\* onto an existing destination of any kind (file, directory, link to a file,
\* link to a directory, dangling link) succeed, and afterwards the destination
\* holds the source's content, as a link for link_file, with nothing of the
\* old destination left.
C11_OverwriteReplaces ==
    [][(/\ hist' # hist
        /\ cur'.op \in {"link_file", "copy_file"}
        /\ cur'.overwrite
        /\ file_exists(fs, cur'.dest)
        /\ file_exists(fs, cur'.src))
         => /\ result' = "ok"
            /\ ContentAt(fs', PathOf(cur'.dest.uid)) = ContentAt(fs, PathOf(cur'.src.uid))
            /\ cur'.op = "link_file" => IsSymlink(fs', PathOf(cur'.dest.uid))]_vars

\* C12: link_file and copy_file from a source that does not exist, in copy
\* mode and in symlink mode, recursive or not, raise an error, create nothing
\* at the destination and make one attempt only.
C12_MissingSourceRaises ==
    [][(hist' # hist /\ ~file_exists(fs, cur'.src))
         => /\ result' # "ok"
            /\ ~file_exists(fs, cur'.dest) => ~file_exists(fs', cur'.dest)
            /\ Len(Ops(trace', {"_link_file", "_copy_file"})) <= 1]_vars

\* C13: when the external program of a calculation fails, the wrapped function
\* does not raise but returns an output mapping with status FAILED, an error
\* message and an error kind; the engine then goes on as for a COMPLETED
\* mapping: it validates the outputs, dumps outputs.json and returns.
C13_FailedProgramReturns ==
    /\ [][(pc = "running" /\ cur.program = "failed" /\ pc' # "running")
            => /\ pc' = "post"
               /\ cur'.outputs.status = "FAILED"
               /\ cur'.outputs.error_message # "None"
               /\ cur'.outputs.error_type # "None"]_vars
    /\ [][(pc = "post" /\ cur.outputs.status = "FAILED" /\ cur.output_model # "invalid")
            => /\ pc' = "done" /\ result' = "returned"
               /\ cur.output_model = "valid"
                    => /\ Has(trace', {"output_validate"})
                       /\ IsFile(fs', InWorkDir(cur.uid, <<"outputs.json">>))]_vars

\* The names a calculation of the pipeline may carry on the ledger.
ScfNames == {<<"run_scf">>, <<"pw-scf">>}
NscfNames == {<<"run_nscf">>, <<"pw-nscf">>}
BandsNames == {<<"run_bands">>, <<"pw-bands">>}
\* run_scf_nscf_bands is over, its inputs having passed adapt_pw_input and no
\* task function having raised.
PipelineOver == pc = "ended" /\ result # "ValidationError" /\ ~failed

\* C14: in the pipeline, task invocations never overlap: an invocation, and so
\* its staging step, starts only when the invocation before has returned, its
\* working directory in place and its output mapping handed to the pipeline.
C14_TasksDoNotOverlap ==
    /\ [](pc \in {"validate", "reset", "stage", "call", "running", "post", "done"}
            => Len(hist) = Len(pipe) + 1)
    /\ [][hist' # hist
            => /\ Len(hist') = Len(hist) + 1
               /\ Len(pipe') = Len(hist)
               /\ hist # <<>> => /\ pc = "done" /\ result = "returned"
                                 /\ Has(trace, {"func_return"})
                                 /\ IsDir(fs, WorkDir(cur.uid))
                                 /\ pipe'[Len(pipe')] = cur.outputs]_vars

\* The second task of the pipeline is at its staging step.
C14_Witness == Len(hist) = 2 /\ pc = "stage" /\ Len(pipe) = 1

\* C15: one run of the pipeline invokes the task wrapper exactly three times,
\* for scf, nscf and bands in that order, and on a fresh engine these tasks
\* get the ordinals 1, 2 and 3.
C15_ThreeTasksInOrder ==
    PipelineOver
      => /\ Len(hist) = 3
         /\ hist[1] \in ScfNames /\ hist[2] \in NscfNames /\ hist[3] \in BandsNames
         /\ \A k \in 1..3 : uids[k] = TwoDigits(k) \o <<"-">> \o hist[k]

\* C16: the pipeline invokes nscf and bands with a link directive whose source
\* is the output directory of the calculation before, and the staging step
\* makes that directory available in the new working directory before the
\* function runs.
C16_OutdirHandedAsLink ==
    /\ [][(hist' # hist /\ hist'[Len(hist')] \in NscfNames \cup BandsNames)
            => \E k \in 1..Len(cur'.kwargs) :
                 /\ IsLink(cur'.kwargs[k])
                 /\ \E j \in 1..Len(pipe') : cur'.kwargs[k].src = pipe'[j].outdir]_vars
    /\ []((pc = "call" /\ cur.name \in NscfNames \cup BandsNames)
            => \E k \in 1..Len(cur.kwargs) :
                 /\ IsLink(cur.kwargs[k])
                 /\ IsDir(fs, InWorkDir(cur.uid, cur.kwargs[k].dest)))
    /\ [](PipelineOver
            => /\ \E k \in 1..Len(hist) : hist[k] \in NscfNames
               /\ \E k \in 1..Len(hist) : hist[k] \in BandsNames)

\* C18: run_scf_nscf_bands on a LocalhostEngine, all its tasks having returned
\* without raising, returns a result whose total_energy is that of the
\* outputs of the scf task and whose band_structure is that of the outputs of
\* the bands task.
C18_WorkflowResult ==
    PipelineOver
      => /\ result = "returned"
         /\ \E i, j \in 1..Len(hist) :
              /\ hist[i] \in ScfNames /\ hist[j] \in BandsNames
              /\ cur.outputs.total_energy = pipe[i].total_energy
              /\ cur.outputs.band_structure = pipe[j].band_structure

\* The link directives of the invocation in progress that hand on an existing
\* output directory under the name tmp, by symlink, recursive, overwriting.
OutdirLinks ==
    {k \in 1..Len(cur.kwargs) :
       /\ IsLink(cur.kwargs[k])
       /\ cur.kwargs[k].symlink /\ cur.kwargs[k].recursive /\ cur.kwargs[k].overwrite
       /\ cur.kwargs[k].dest = <<"tmp">>
       /\ cur.kwargs[k].src.kind = "directory"
       /\ IsDir(fs, PathOf(cur.kwargs[k].src.uid))}

\* C17: when a task is invoked with the link directive {source: the output
\* directory <uid of the task before>/tmp, destination tmp, symlink, recursive,
\* overwrite}, then after staging every file below the source directory is
\* found at the same relative path below <uid>/tmp and resolves, with no
\* dangling link, to that file of the source directory.
C17_StagedOutdirResolves ==
    pc \in {"call", "running"} /\ ~cur.wrote =>
      \A k \in OutdirLinks :
        LET src == PathOf(cur.kwargs[k].src.uid)
            dest == InWorkDir(cur.uid, cur.kwargs[k].dest)
        IN \A r \in FilesBelow(fs, src) :
             /\ IsFile(fs, dest \o r)
             /\ Resolve(fs, dest \o r) = Resolve(fs, src \o r)
             /\ Resolve(fs, dest \o r) # Abs(dest \o r)

\* The second task is about to run, the output directory 01-f/tmp of the
\* first, which holds a file, staged under 02-g/tmp.
C17_Witness ==
    /\ pc = "call" /\ Len(uids) = 2 /\ OutdirLinks # {}
    /\ cur.kwargs[2].src = directory(<<"0", "1", "-", "f", "/", "tmp">>)
    /\ cur.uid = <<"0", "2", "-", "g">>
    /\ FilesBelow(fs, PathOf(cur.kwargs[2].src.uid)) # {}
    /\ Has(trace, {"_link_file"})

\* The invocation in progress or over went through the graph-backend wrapper.
ViaAiida == Has(trace, {"aiida_task"})

\* The task functions run_scf_nscf_bands_core wraps, as the wrappers see them.
PipelineFns == {FnOf(PipelineCall(i, [j \in 1..NCalls |-> NoOutputs]).func) : i \in 1..NCalls}

\* C19: a task function of the pipeline called through the graph-backend
\* wrapper is handed the ambient parameters Engine.task hands it, succeeds or
\* fails as it does through Engine.task, and a name given to the wrapper is
\* one Engine.task takes as well.
C19_WrappersAgree ==
    (pc = "done" /\ ViaAiida /\ cur.fn \in PipelineFns)
      => /\ cur.received = engine_ambient(cur.fn)
         /\ (result = "returned") = (python_call(cur.fn, engine_ambient(cur.fn)) = "")
         /\ Engine_task(cur.label) = ""

\* C20: Engine.task hands the wrapped function an ambient value exactly when
\* the declared parameters of the function name it, and the uid it hands is
\* the one assigned to this invocation.
C20_AmbientIffDeclared ==
    \A i \in 1..Len(trace) :
      trace[i].op = "func"
        => /\ \A n \in Ambient : (n \in trace[i].args[2]) <=> (n \in cur.fn.params)
           /\ trace[i].args[1] = uids[Len(uids)]

\* The call the pipeline makes next, when it goes on from this state.
NextPipelineCall ==
    PipelineCall(Len(pipe) + (IF pc = "done" THEN 2 ELSE 1),
                 IF pc = "done" THEN Append(pipe, cur.outputs) ELSE pipe)

\* C21: Engine.task takes an optional task name next to the function: a call
\* of the pipeline that supplies a name is accepted and its invocation gets
\* the uid <ordinal>-<that name>; a call without a name gets the uid
\* <ordinal>-<name of the function>.
C21_TaskTakesName ==
    [][(/\ pipeline_goes_on(pc, result)
        /\ Len(pipe) + (IF pc = "done" THEN 2 ELSE 1) <= NCalls)
         => /\ pc' = "validate"
            /\ uids' = Append(uids, TwoDigits(Len(uids) + 1) \o <<"-">> \o
                                      (IF NextPipelineCall.label # <<>>
                                       THEN NextPipelineCall.label
                                       ELSE NextPipelineCall.func))]_vars

\* C22: after an invocation has returned normally, <uid>/outputs.json exists
\* if and only if an output schema was supplied, and then it is a file of the
\* working directory holding the validated outputs; when the returned mapping
\* fails the output schema, the invocation raises, outputs.json is not written
\* and the working directory stays as it is.
C22_OutputsJsonIffSchema ==
    /\ []((pc = "done" /\ result = "returned")
            => /\ Exists(fs, InWorkDir(cur.uid, <<"outputs.json">>))
                    <=> cur.output_model = "valid"
               /\ cur.output_model = "valid"
                    => /\ InWorkDir(cur.uid, <<"outputs.json">>) \in
                            {SubSeq(q, 3, Len(q)) : q \in DOMAIN fs}
                       /\ ContentAt(fs, InWorkDir(cur.uid, <<"outputs.json">>)) = <<"outputs">>)
    /\ [][(pc = "post" /\ cur.output_model = "invalid")
            => /\ pc' = "done" /\ result' = "ValidationError"
               /\ fs' = fs
               /\ ~Exists(fs', InWorkDir(cur.uid, <<"outputs.json">>))]_vars

\* A task with an output schema has returned, in a working directory that
\* held an outputs.json of an earlier run before the reset.
C22_Witness ==
    /\ pc = "done" /\ result = "returned" /\ cur.output_model = "valid"
    /\ cur.uid = <<"0", "2", "-", "g">>
    /\ <<"/", "w", "02-f">> \in DOMAIN fs
    /\ ContentAt(fs, InWorkDir(cur.uid, <<"outputs.json">>)) = <<"outputs">>

\* The dump of the validated inputs, about to be made, fails.
InputsDumpFails ==
    /\ pc = "validate" /\ cur.input_model = "valid"
    /\ write_to_file(fs, "inputs", single_file(Sub(cur.uid, <<"inputs.json">>))).err # ""

\* C23: a failure while writing <uid>/inputs.json is not fatal to the task:
\* no exception reaches the caller, and the invocation goes on to reset the
\* working directory, stage the inputs and invoke the wrapped function.
C23_InputsDumpFailureNotFatal ==
    [][InputsDumpFails
         => /\ pc' = "reset"
            /\ result' = result /\ failed' = failed]_vars

\* C24: the ledger belongs to one Engine instance: a new instance starts with
\* an empty ledger, however many tasks the other instances have run, its first
\* task gets the ordinal 1, and an invocation on one instance appends to the
\* ledger of that instance and leaves the ledgers of the others as they are.
C24_LedgerPerInstance ==
    /\ [][Len(uids') > Len(uids)
            => /\ uids'[Len(uids')] = <<>>
               /\ SubSeq(uids', 1, Len(uids)) = uids]_vars
    /\ [][hist' # hist
            => /\ Len(uids') = Len(uids)
               /\ \A i \in 1..Len(uids) :
                    uids'[i] = IF i = cur'.self THEN Append(uids[i], cur'.uid) ELSE uids[i]]_vars
    /\ [](\A e \in 1..Len(uids) :
            \A k \in 1..Len(uids[e]) :
              SubSeq(uids[e][k], 1, 3) = TwoDigits(k) \o <<"-">>)

\* The first task of the second instance has returned under the ordinal 1,
\* the first instance having run a task before.
C24_Witness ==
    /\ Len(uids) = 2 /\ Len(uids[1]) = 1 /\ Len(uids[2]) = 1
    /\ cur.self = 2 /\ cur.uid = uids[2][1]
    /\ SubSeq(cur.uid, 1, 3) = <<"0", "1", "-">>
    /\ pc = "done" /\ result = "returned"

\* The directory of the run moved as a unit, to another depth of the tree.
NewRoot == <<"/", "mnt", "moved">>
Moved(p) == IF IsPrefix(CWD, p) THEN NewRoot \o SubSeq(p, Len(CWD) + 1, Len(p)) ELSE p
Relocated(tree) ==
    LET kept == [q \in {Moved(p) : p \in DOMAIN tree} |->
                   tree[CHOOSE p \in DOMAIN tree : Moved(p) = q]]
    IN Put(kept, <<"/", "mnt">>, DirNode)

\* The target stored in the link at p.
TargetOf(tree, p) == tree[LStat(tree, p).path].target

\* C25: for a single-file source, link_file of the local backend and the
\* non-recursive link_path create at dest a symlink whose target is a relative
\* path leading from the directory of dest to src; the link resolves to src,
\* also when src is a link or the directory of dest is reached through a link,
\* and to the same file after the directory that holds both working
\* directories has been moved as a unit.
C25_RelativeLinkResolves ==
    [][(/\ hist' # hist /\ result' = "ok"
        /\ cur'.src.kind = "single_file"
        /\ cur'.op = "link_file" \/ ~cur'.recursive)
         => LET d == PathOf(cur'.dest.uid)
                s == PathOf(cur'.src.uid)
            IN /\ IsSymlink(fs', d)
               /\ ~IsAbs(TargetOf(fs', d))
               /\ LexJoin(Resolve(fs, Parent(d)), TargetOf(fs', d)) = Resolve(fs, s)
               /\ IsFile(fs', d)
               /\ Resolve(fs', d) = Resolve(fs, s)
               /\ IsPrefix(CWD, Resolve(fs, s))
                    => /\ IsFile(Relocated(fs'), Moved(Abs(d)))
                       /\ Resolve(Relocated(fs'), Moved(Abs(d))) = Moved(Resolve(fs, s))]_vars

\* A link to a source that is itself a link was created in a directory
\* reached through a link.
C25_Witness ==
    /\ result = "ok" /\ cur.op \in {"link_file", "link_path"}
    /\ cur.src = single_file(<<"01-a", "/", "alias">>)
    /\ cur.dest = single_file(<<"via", "/", "new">>)
    /\ IsSymlink(fs, <<"02-b", "new">>)
    /\ TargetOf(fs, <<"02-b", "new">>) = <<"..", "01-a", "out.dat">>

NonRecursive(tree, call) ==
    IF call.op = "link_file" THEN link_file(tree, call.src, call.dest, FALSE)
    ELSE link_path(tree, PathOf(call.src.uid), PathOf(call.dest.uid), FALSE)

\* C27: the recursive flag has no effect when the source is a single file:
\* a link call with recursive=True on a file source ends as the same call
\* with recursive=False does and leaves the same symlink at dest.
C27_RecursiveIgnoredForFiles ==
    [][(/\ hist' # hist
        /\ cur'.src.kind = "single_file"
        /\ cur'.recursive)
         => /\ fs' = NonRecursive(fs, cur').fs
            /\ (result' = "ok") = (NonRecursive(fs, cur').err = "")]_vars

\* The entries created, removed or changed between two trees.
Touched(tree, after) ==
    {q \in DOMAIN tree \cup DOMAIN after :
       q \notin DOMAIN tree \/ q \notin DOMAIN after \/ tree[q] # after[q]}

\* The steps of run_task that are the engine's own.
EngineSteps == {"validate", "reset", "stage", "post"}

\* C28: whatever task name and destination name the caller supplies, every
\* path the engine creates, writes, links or copies to, or deletes while it
\* runs a task is the working directory <uid> of the task, a directory on the
\* way to it, or a path inside it.
C28_EngineStaysInWorkDir ==
    [][(pc \in EngineSteps)
         => \A q \in Touched(fs, fs') :
              \/ IsPrefix(Abs(WorkDir(cur.uid)), q)
              \/ IsPrefix(q, Abs(WorkDir(cur.uid)))]_vars

\* The entries of the working directory of the other task.
OtherTaskDir == <<"/", "w", "01-f">>

\* C29: the reset of a working directory and the staging into it, deleting or
\* overwriting a destination staged before, leave every entry of the working
\* directory of another task as it is, also when what is removed or
\* overwritten is or holds a link into that directory.
C29_OtherTaskUntouched ==
    [][(pc \in {"reset", "stage"})
         => \A q \in Under(fs, OtherTaskDir) : q \in DOMAIN fs' /\ fs'[q] = fs[q]]_vars

\* Thread t has been assigned its uid.
HasUid(t) == pc[t] \in {"append", "reset", "running", "done"}

\* C30: two invocations running at once on one Engine instance, their steps
\* interleaved between the reading of the ledger length and the append in
\* assign_uid, get distinct uids, and so distinct working directories, and
\* the ledger holds no uid twice.
C30_ConcurrentUidsDistinct ==
    /\ \A t, u \in Threads : (t # u /\ HasUid(t) /\ HasUid(u)) => cur[t].uid # cur[u].uid
    /\ NoDuplicateUids

====
